---- MODULE Spec2Model ----
(***************************************************************************)
(* State-machine model of the map search view (src/src/App.tsx and         *)
(* src/src/components/MapSearch.tsx).                                      *)
(*                                                                         *)
(* The variables are the React state of MapSearch (currentPosition, map,   *)
(* searchQuery, searchResults, selectedPlace, searchBoxRef), the state of  *)
(* its asynchronous collaborators (SDK loader, geolocation request,        *)
(* provider requests in flight, the map surface's visual center, the text  *)
(* held by the uncontrolled <input>), and the effects it leaves on the     *)
(* environment (alerts, an uncaught exception, and the console entries the  *)
(* latest handler wrote).                                                  *)
(*                                                                         *)
(* lastEvent and pickedCoord are history variables: they record which      *)
(* handler ran last (with its input) and the coordinate of the latest      *)
(* autocomplete pick not yet followed by a keyword search.  No handler     *)
(* reads them.                                                             *)
(*                                                                         *)
(* Two specifications:                                                     *)
(*   Spec    one action per handler / callback defined by the code.        *)
(*           handleSearch and setSearchQuery are defined by MapSearch but  *)
(*           bound to no element of the rendered tree, so Spec drives them *)
(*           directly, as a caller of the handler would.                   *)
(*   SpecUI  the program as wired: only what a user gesture or an          *)
(*           environment callback can trigger in the rendered tree.        *)
(***************************************************************************)
EXTENDS Integers, Sequences, FiniteSets, TLC

VARIABLES
    torn,             \* TRUE once React has unmounted MapSearch
    staleOps,         \* TRUE once a map operation went through a handle of an unmounted map
    apiKey,           \* App.tsx: import.meta.env.VITE_GOOGLE_MAPS_API_KEY
    sdk,              \* useJsApiLoader: "idle" (never called) | "loading" | "loaded" | "error"
    geo,              \* geolocation effect: "idle" | "pending" | "done"
    geoRequests,      \* number of getCurrentPosition calls made
    currentPosition,  \* useState: Coordinate or Null
    map,              \* useState: MapHandle or Null
    mapState,         \* GoogleMap lifecycle: "unmounted" | "mounting" | "mounted"
    center,           \* visual center of the map surface (Null before mount)
    searchQuery,      \* useState('')
    inputText,        \* text held by the uncontrolled <input>
    searchResults,    \* useState([]): sequence of places
    selectedPlace,    \* useState(null): place or Null
    searchBoxRef,     \* useRef(null): SearchBox instance or Null
    requests,         \* nearbySearch requests issued, in issue order
    alerts,           \* statuses named by the alerts raised, in order
    console,          \* console entries written by the handler that ran last
    uncaught,         \* TRUE once a callback has thrown
    lastEvent,        \* history: the handler that ran last and its input
    pickedCoord       \* history: latest pick's coordinate, until a search is issued

vars ==
    <<torn, staleOps, apiKey, sdk, geo, geoRequests, currentPosition, map, mapState,
      center, searchQuery, inputText, searchResults, selectedPlace, searchBoxRef,
      requests, alerts, console, uncaught, lastEvent, pickedCoord>>

\* The React state and the lasting effects on the environment.
session ==
    <<torn, staleOps, apiKey, sdk, geo, geoRequests, currentPosition, map, mapState,
      center, searchQuery, inputText, searchResults, selectedPlace, searchBoxRef,
      requests, alerts, uncaught>>

----------------------------------------------------------------------------
(* Bounds *)

MaxResults == 2     \* longest place list a provider answer carries
MaxSearches == 2    \* keyword searches issued in one behaviour

----------------------------------------------------------------------------
(* Values *)

Null == [null |-> TRUE]

\* Coordinates in micro-degrees.
Coord(lat, lng) == [lat |-> lat, lng |-> lng]
Fallback == Coord(35681236, 139767125)
GeoCoords == {Coord(34693700, 135502200)}
LocA == Coord(35681300, 139767200)

Radius == 5000

Place(id, loc) == [place_id |-> id, location |-> loc]
Places == {Place("p1", LocA), Place("p2", Null)}

HasGeometry(place) == place.location # Null

RECURSIVE ListsOfLen(_)
ListsOfLen(n) ==
    IF n = 0 THEN {<<>>}
    ELSE {Append(l, p) : l \in ListsOfLen(n - 1), p \in Places}

Ids(l) == {l[i].place_id : i \in 1..Len(l)}

\* Place lists with ids unique within the list, up to MaxResults entries.
PlaceLists ==
    {l \in UNION {ListsOfLen(n) : n \in 0..MaxResults} : Cardinality(Ids(l)) = Len(l)}

None == [some |-> FALSE]
Some(v) == [some |-> TRUE, v |-> v]
\* What the provider hands to a callback: a list, or null/undefined.
MaybeLists == {None} \cup {Some(l) : l \in PlaceLists}

Statuses == {"OK", "ZERO_RESULTS", "OVER_QUERY_LIMIT"}

\* What nearbySearch hands to its callback: OK with a list (or, defensively, with
\* null), or a failure status with null.
Responses ==
    {[status |-> "OK", results |-> r] : r \in MaybeLists}
    \cup {[status |-> s, results |-> None] : s \in Statuses \ {"OK"}}
Queries == {"", "coffee"}
MapInstance == [mapId |-> 1]

Event(op) == [op |-> op]

----------------------------------------------------------------------------
(* Construction *)

Init ==
    /\ torn = FALSE
    /\ staleOps = FALSE
    /\ apiKey \in {"", "key"}
    /\ sdk = IF apiKey = "" THEN "idle" ELSE "loading"
    /\ geo = "idle"
    /\ geoRequests = 0
    /\ currentPosition = Null
    /\ map = Null
    /\ mapState = "unmounted"
    /\ center = Null
    /\ searchQuery = ""
    /\ inputText = ""
    /\ searchResults = <<>>
    /\ selectedPlace = Null
    /\ searchBoxRef = Null
    /\ requests = <<>>
    /\ alerts = <<>>
    /\ console = {}
    /\ uncaught = FALSE
    /\ lastEvent = Event("init")
    /\ pickedCoord = Null

\* Mutant: App renders MapSearch whether or not the key is present.
MapSearchRenderedAlways == TRUE

\* App renders MapSearch only when the API key is present; it stays rendered until
\* React unmounts it.
MapSearchRendered == apiKey # "" /\ ~torn

\* Mutant: the tree is returned without waiting for the SDK.
TreeRenderedBeforeLoad == MapSearchRendered

\* MapSearch returns its full tree only once the SDK has loaded.
TreeRendered == MapSearchRendered /\ sdk = "loaded"

\* <GoogleMap> is part of the tree only when currentPosition is known.
GoogleMapRendered == TreeRendered /\ currentPosition # Null

\* A state setter called after React has unmounted the component changes nothing.
SetState(new, old) == IF torn THEN old ELSE new

\* center={currentPosition}: a new currentPosition object re-centers a live map.
CenterAfterPosition(pos) == IF map # Null THEN pos ELSE center

----------------------------------------------------------------------------
(* B. Geolocation effect *)

\* Mutant: the effect runs again while the first request is still pending.
GeoEffectRepeating ==
    /\ MapSearchRendered
    /\ geo \in {"idle", "pending"}
    /\ geoRequests < 2
    /\ geo' = "pending"
    /\ geoRequests' = geoRequests + 1
    /\ lastEvent' = Event("geoRequest")
    /\ console' = {}
    /\ UNCHANGED <<torn, staleOps, apiKey, sdk, currentPosition, center, map, mapState,
                   searchQuery, inputText, searchResults, selectedPlace, searchBoxRef,
                   requests, alerts, uncaught, pickedCoord>>

GeoEffect ==
    /\ MapSearchRendered
    /\ geo = "idle"
    /\ \/ /\ geo' = "pending"                 \* navigator.geolocation present
          /\ geoRequests' = geoRequests + 1
          /\ lastEvent' = Event("geoRequest")
          /\ UNCHANGED <<currentPosition, center>>
       \/ /\ geo' = "done"                    \* unsupported
          /\ currentPosition' = Fallback
          /\ center' = CenterAfterPosition(Fallback)
          /\ lastEvent' = Event("geoUnsupported")
          /\ UNCHANGED geoRequests
    /\ console' = {}
    /\ UNCHANGED <<torn, staleOps, apiKey, sdk, map, mapState, searchQuery, inputText,
                   searchResults, selectedPlace, searchBoxRef, requests, alerts,
                   uncaught, pickedCoord>>

GeoSuccess(c) ==
    /\ geo = "pending"
    /\ geo' = "done"
    /\ currentPosition' = SetState(c, currentPosition)
    /\ center' = CenterAfterPosition(c)
    /\ lastEvent' = Event("geoSuccess")
    /\ console' = {}
    /\ UNCHANGED <<torn, staleOps, apiKey, sdk, geoRequests, map, mapState,
                   searchQuery, inputText, searchResults, selectedPlace, searchBoxRef,
                   requests, alerts, uncaught, pickedCoord>>

\* Mutant: the failure callback forgets the fallback.
GeoFailureLeavesPosition ==
    /\ geo = "pending"
    /\ geo' = "done"
    /\ console' = {"warn:geolocation"}
    /\ lastEvent' = Event("geoFailure")
    /\ UNCHANGED <<torn, staleOps, apiKey, sdk, geoRequests, currentPosition, center,
                   map, mapState, searchQuery, inputText, searchResults, selectedPlace,
                   searchBoxRef, requests, alerts, uncaught, pickedCoord>>

GeoFailure ==
    /\ geo = "pending"
    /\ geo' = "done"
    /\ currentPosition' = SetState(Fallback, currentPosition)
    /\ center' = CenterAfterPosition(Fallback)
    /\ console' = {"warn:geolocation"}
    /\ lastEvent' = Event("geoFailure")
    /\ UNCHANGED <<torn, staleOps, apiKey, sdk, geoRequests, map, mapState,
                   searchQuery, inputText, searchResults, selectedPlace, searchBoxRef,
                   requests, alerts, uncaught, pickedCoord>>

----------------------------------------------------------------------------
(* A. SDK loader *)

SdkLoaded ==
    /\ MapSearchRendered
    /\ geo # "idle"
    /\ sdk = "loading"
    /\ sdk' = "loaded"
    /\ lastEvent' = Event("sdkLoaded")
    /\ console' = {}
    /\ UNCHANGED <<torn, staleOps, apiKey, geo, geoRequests, currentPosition, map,
                   mapState, center, searchQuery, inputText, searchResults,
                   selectedPlace, searchBoxRef, requests, alerts, uncaught,
                   pickedCoord>>

SdkLoadError ==
    /\ MapSearchRendered
    /\ geo # "idle"
    /\ sdk = "loading"
    /\ sdk' = "error"
    /\ lastEvent' = Event("sdkLoadError")
    /\ console' = {}
    /\ UNCHANGED <<torn, staleOps, apiKey, geo, geoRequests, currentPosition, map,
                   mapState, center, searchQuery, inputText, searchResults,
                   selectedPlace, searchBoxRef, requests, alerts, uncaught,
                   pickedCoord>>

SearchBoxOnLoad ==
    /\ TreeRendered
    /\ searchBoxRef = Null
    /\ searchBoxRef' = [searchBox |-> 1]
    /\ lastEvent' = Event("searchBoxOnLoad")
    /\ console' = {}
    /\ UNCHANGED <<torn, staleOps, apiKey, sdk, geo, geoRequests, currentPosition, map,
                   mapState, center, searchQuery, inputText, searchResults,
                   selectedPlace, requests, alerts, uncaught, pickedCoord>>

----------------------------------------------------------------------------
(* Map mount lifecycle *)

GoogleMapMount ==
    /\ GoogleMapRendered
    /\ mapState = "unmounted"
    /\ mapState' = "mounting"
    /\ lastEvent' = Event("mapMounting")
    /\ console' = {}
    /\ UNCHANGED <<torn, staleOps, apiKey, sdk, geo, geoRequests, currentPosition, map,
                   center, searchQuery, inputText, searchResults, selectedPlace,
                   searchBoxRef, requests, alerts, uncaught, pickedCoord>>

onLoad ==
    /\ mapState = "mounting"
    /\ mapState' = "mounted"
    /\ map' = MapInstance
    /\ center' = IF currentPosition # Null THEN currentPosition ELSE center
    /\ lastEvent' = Event("onLoad")
    /\ console' = {}
    /\ UNCHANGED <<torn, staleOps, apiKey, sdk, geo, geoRequests, currentPosition,
                   searchQuery, inputText, searchResults, selectedPlace, searchBoxRef,
                   requests, alerts, uncaught, pickedCoord>>

----------------------------------------------------------------------------
(* C. Keyword search *)

\* Mutant: the guard forgets the empty-query check.
CanSearchIgnoringQuery ==
    /\ map # Null
    /\ currentPosition # Null
    /\ sdk = "loaded"

\* The guard of handleSearch: it returns early unless all four hold.
CanSearch ==
    /\ map # Null
    /\ searchQuery # ""
    /\ currentPosition # Null
    /\ sdk = "loaded"

Request ==
    [location |-> currentPosition, radius |-> Radius, keyword |-> searchQuery,
     map |-> map, pending |-> TRUE]

handleSearch ==
    /\ MapSearchRendered
    /\ \/ /\ ~CanSearch
          /\ lastEvent' = [op |-> "handleSearch", issued |-> FALSE]
          /\ UNCHANGED <<requests, pickedCoord>>
       \/ /\ CanSearch
          /\ Len(requests) < MaxSearches
          /\ requests' = Append(requests, Request)
          /\ pickedCoord' = Null
          /\ lastEvent' = [op |-> "handleSearch", issued |-> TRUE]
    /\ console' = {}
    /\ UNCHANGED <<torn, staleOps, apiKey, sdk, geo, geoRequests, currentPosition, map,
                   mapState, center, searchQuery, inputText, searchResults,
                   selectedPlace, searchBoxRef, alerts, uncaught>>

\* The branch the callback takes: status OK and a non-null result list.
ResponseOk(status, results) == status = "OK" /\ results.some

\* results[0].geometry?.location on an empty list reads a property of undefined.
ResponseThrows(status, results) == ResponseOk(status, results) /\ results.v = <<>>

\* Mutant: the callback pans to the last entry instead of the first.
CenterAfterResponseLast(req, status, results) ==
    IF /\ ResponseOk(status, results)
       /\ results.v # <<>>
       /\ HasGeometry(results.v[Len(results.v)])
    THEN results.v[Len(results.v)].location
    ELSE center

\* map.panTo(results[0].geometry.location), through the handle the request captured.
CenterAfterResponse(req, status, results) ==
    IF /\ ResponseOk(status, results)
       /\ results.v # <<>>
       /\ HasGeometry(results.v[1])
    THEN results.v[1].location
    ELSE center

\* Mutant: a failed search keeps the list it found.
ResultsAfterResponseKeeping(status, results) ==
    IF ResponseOk(status, results) THEN results.v ELSE searchResults

ResultsAfterResponse(status, results) ==
    IF ResponseOk(status, results) THEN results.v ELSE <<>>

AlertsAfterResponse(status, results) ==
    IF ResponseOk(status, results) THEN alerts ELSE Append(alerts, status)

\* Mutant: a response is dropped once a request issued later has been answered.
nearbySearchCallbackDroppingStale(i, status, results) ==
    /\ i \in 1..Len(requests)
    /\ requests[i].pending
    /\ requests' = [requests EXCEPT ![i].pending = FALSE]
    /\ LET stale == \E j \in (i + 1)..Len(requests) : ~requests[j].pending
       IN  /\ searchResults' = IF stale THEN searchResults
                                ELSE ResultsAfterResponse(status, results)
           /\ center' = IF stale THEN center
                         ELSE CenterAfterResponse(requests[i], status, results)
           /\ alerts' = IF stale THEN alerts ELSE AlertsAfterResponse(status, results)
           /\ console' = IF stale \/ ResponseOk(status, results) THEN {}
                         ELSE {"error:search"}
           /\ uncaught' = (uncaught \/ (~stale /\ ResponseThrows(status, results)))
    /\ lastEvent' = [op |-> "searchResponse", req |-> i, status |-> status,
                     results |-> results]
    /\ UNCHANGED <<torn, staleOps, apiKey, sdk, geo, geoRequests, currentPosition, map,
                   mapState, searchQuery, inputText, selectedPlace, searchBoxRef,
                   pickedCoord>>

\* Mutant: a successful search also moves currentPosition to the first result.
nearbySearchCallbackMovingCoordinate(i, status, results) ==
    /\ i \in 1..Len(requests)
    /\ requests[i].pending
    /\ requests' = [requests EXCEPT ![i].pending = FALSE]
    /\ searchResults' = ResultsAfterResponse(status, results)
    /\ center' = CenterAfterResponse(requests[i], status, results)
    /\ currentPosition' = CenterAfterResponse(requests[i], status, results)
    /\ alerts' = AlertsAfterResponse(status, results)
    /\ console' = IF ResponseOk(status, results) THEN {}
                  ELSE {"error:search"}
    /\ uncaught' = (uncaught \/ ResponseThrows(status, results))
    /\ lastEvent' = [op |-> "searchResponse", req |-> i, status |-> status,
                     results |-> results]
    /\ UNCHANGED <<torn, staleOps, apiKey, sdk, geo, geoRequests, map, mapState,
                   searchQuery, inputText, selectedPlace, searchBoxRef, pickedCoord>>

\* The callback reaches map.panTo.
PansOnResponse(status, results) ==
    /\ ResponseOk(status, results)
    /\ results.v # <<>>
    /\ HasGeometry(results.v[1])

\* The handle a request captured is no longer the mounted map.
StaleHandle(req) == req.map # map

nearbySearchCallback(i, status, results) ==
    /\ i \in 1..Len(requests)
    /\ requests[i].pending
    /\ requests' = [requests EXCEPT ![i].pending = FALSE]
    /\ searchResults' = SetState(ResultsAfterResponse(status, results), searchResults)
    /\ center' = IF StaleHandle(requests[i]) THEN center
                  ELSE CenterAfterResponse(requests[i], status, results)
    /\ staleOps' = (staleOps \/ (StaleHandle(requests[i]) /\ PansOnResponse(status, results)))
    /\ alerts' = AlertsAfterResponse(status, results)
    /\ console' = IF ResponseOk(status, results) THEN {}
                  ELSE {"error:search"}
    /\ uncaught' = (uncaught \/ ResponseThrows(status, results))
    /\ lastEvent' = [op |-> "searchResponse", req |-> i, status |-> status,
                     results |-> results]
    /\ UNCHANGED <<torn, apiKey, sdk, geo, geoRequests, currentPosition, map, mapState,
                   searchQuery, inputText, selectedPlace, searchBoxRef, pickedCoord>>

setSearchQuery(q) ==
    /\ MapSearchRendered
    /\ searchQuery' = q
    /\ lastEvent' = Event("setSearchQuery")
    /\ console' = {}
    /\ UNCHANGED <<torn, staleOps, apiKey, sdk, geo, geoRequests, currentPosition, map,
                   mapState, center, inputText, searchResults, selectedPlace,
                   searchBoxRef, requests, alerts, uncaught, pickedCoord>>

----------------------------------------------------------------------------
(* Autocomplete pick *)

\* Mutant: the pick is applied without looking at the geometry.
PickAppliesIgnoringGeometry(places) ==
    /\ searchBoxRef # Null
    /\ places.some
    /\ Len(places.v) > 0

\* The pick takes effect: the ref is set, a first candidate exists and has geometry.
PickApplies(places) ==
    /\ searchBoxRef # Null
    /\ places.some
    /\ Len(places.v) > 0
    /\ HasGeometry(places.v[1])

\* The pick reaches the else branch that logs the missing geometry.
PickLogsError(places) ==
    /\ searchBoxRef # Null
    /\ places.some
    /\ Len(places.v) > 0
    /\ ~HasGeometry(places.v[1])

\* places_changed is emitted by the SearchBox instance the ref holds.
SearchBoxMounted == TreeRendered /\ searchBoxRef # Null

onPlacesChanged(places) ==
    /\ SearchBoxMounted
    /\ IF PickApplies(places)
       THEN LET firstPlace == places.v[1]
                newCenter == firstPlace.location
            IN  /\ center' = IF map # Null THEN newCenter ELSE center
                /\ currentPosition' = newCenter
                /\ searchResults' = <<firstPlace>>
                /\ selectedPlace' = firstPlace
                /\ pickedCoord' = newCenter
                /\ console' = {}
       ELSE /\ console' = IF PickLogsError(places)
                          THEN {"error:geometry"} ELSE {}
            /\ UNCHANGED <<center, currentPosition, searchResults, selectedPlace,
                           pickedCoord>>
    /\ lastEvent' = [op |-> "placesChanged", places |-> places]
    /\ UNCHANGED <<torn, staleOps, apiKey, sdk, geo, geoRequests, map, mapState,
                   searchQuery, inputText, searchBoxRef, requests, alerts, uncaught>>

----------------------------------------------------------------------------
(* D. Presentation: markers, overlay, list rows, text entry *)

InResults(place) == \E i \in 1..Len(searchResults) : searchResults[i] = place

\* A result marker exists for every result with geometry, inside <GoogleMap>.
MarkerRendered(place) ==
    /\ GoogleMapRendered
    /\ mapState = "mounted"
    /\ InResults(place)
    /\ HasGeometry(place)

MarkerClick(place) ==
    /\ MarkerRendered(place)
    /\ selectedPlace' = place
    /\ lastEvent' = Event("markerClick")
    /\ console' = {}
    /\ UNCHANGED <<torn, staleOps, apiKey, sdk, geo, geoRequests, currentPosition, map,
                   mapState, center, searchQuery, inputText, searchResults,
                   searchBoxRef, requests, alerts, uncaught, pickedCoord>>

RowRendered(place) == TreeRendered /\ InResults(place)

\* map?.panTo(place.geometry.location), only for a place with geometry.
CenterAfterRowClick(place) ==
    IF HasGeometry(place) /\ map # Null THEN place.location ELSE center

RowClick(place) ==
    /\ RowRendered(place)
    /\ selectedPlace' = place
    /\ center' = CenterAfterRowClick(place)
    /\ lastEvent' = Event("rowClick")
    /\ console' = {}
    /\ UNCHANGED <<torn, staleOps, apiKey, sdk, geo, geoRequests, currentPosition, map,
                   mapState, searchQuery, inputText, searchResults, searchBoxRef,
                   requests, alerts, uncaught, pickedCoord>>

\* Mutant: the overlay is shown only for a place of the current result list.
InfoWindowRenderedForResultsOnly ==
    /\ GoogleMapRendered
    /\ mapState = "mounted"
    /\ selectedPlace # Null
    /\ HasGeometry(selectedPlace)
    /\ InResults(selectedPlace)

\* <InfoWindow> is rendered only for a selected place that has geometry.
InfoWindowRendered ==
    /\ GoogleMapRendered
    /\ mapState = "mounted"
    /\ selectedPlace # Null
    /\ HasGeometry(selectedPlace)

\* Mutant: closing the overlay also empties the result list.
onCloseClickClearingResults ==
    /\ InfoWindowRendered
    /\ selectedPlace' = Null
    /\ searchResults' = <<>>
    /\ lastEvent' = Event("closeClick")
    /\ console' = {}
    /\ UNCHANGED <<torn, staleOps, apiKey, sdk, geo, geoRequests, currentPosition, map,
                   mapState, center, searchQuery, inputText, searchBoxRef, requests,
                   alerts, uncaught, pickedCoord>>

\* position={selectedPlace.geometry.location}
InfoWindowPosition == IF InfoWindowRendered THEN selectedPlace.location ELSE Null

onCloseClick ==
    /\ InfoWindowRendered
    /\ selectedPlace' = Null
    /\ lastEvent' = Event("closeClick")
    /\ console' = {}
    /\ UNCHANGED <<torn, staleOps, apiKey, sdk, geo, geoRequests, currentPosition, map,
                   mapState, center, searchQuery, inputText, searchResults,
                   searchBoxRef, requests, alerts, uncaught, pickedCoord>>

\* The <input> has neither value nor onChange: typing changes only its own text.
QueryAfterTyping(text) == searchQuery

TypeText(text) ==
    /\ TreeRendered
    /\ inputText' = text
    /\ searchQuery' = QueryAfterTyping(text)
    /\ lastEvent' = Event("typeText")
    /\ console' = {}
    /\ UNCHANGED <<torn, staleOps, apiKey, sdk, geo, geoRequests, currentPosition, map,
                   mapState, center, searchResults, selectedPlace, searchBoxRef,
                   requests, alerts, uncaught, pickedCoord>>

----------------------------------------------------------------------------
(* Teardown *)

\* React unmounts MapSearch: <GoogleMap>, if mounted, calls onUnmount -> setMap(null),
\* and the component's state is no longer updated.  The commit that mounts the map
\* is synchronous, so no teardown falls between "mounting" and "mounted".
Unmount ==
    /\ MapSearchRendered
    /\ mapState # "mounting"
    /\ torn' = TRUE
    /\ map' = Null
    /\ mapState' = "unmounted"
    /\ lastEvent' = Event("unmount")
    /\ console' = {}
    /\ UNCHANGED <<staleOps, apiKey, sdk, geo, geoRequests, currentPosition, center,
                   searchQuery, inputText, searchResults, selectedPlace, searchBoxRef,
                   requests, alerts, uncaught, pickedCoord>>

----------------------------------------------------------------------------
(* Specifications *)

\* Steps common to both specifications.
Common ==
    \/ GeoEffect
    \/ \E c \in GeoCoords : GeoSuccess(c)
    \/ GeoFailure
    \/ SdkLoaded
    \/ SdkLoadError
    \/ SearchBoxOnLoad
    \/ GoogleMapMount
    \/ onLoad
    \/ \E places \in MaybeLists : onPlacesChanged(places)
    \/ \E place \in Places : MarkerClick(place)
    \/ \E place \in Places : RowClick(place)
    \/ onCloseClick

Next ==
    \/ Common
    \/ \E q \in Queries : setSearchQuery(q)
    \/ handleSearch
    \/ \E i \in 1..MaxSearches, r \in Responses :
           nearbySearchCallback(i, r.status, r.results)

Spec == Init /\ [][Next]_vars

\* Spec with the teardown of the component.
NextLifecycle ==
    \/ Next
    \/ Unmount

SpecLifecycle == Init /\ [][NextLifecycle]_vars

NextUI ==
    \/ Common
    \/ \E text \in Queries : TypeText(text)

SpecUI == Init /\ [][NextUI]_vars

----------------------------------------------------------------------------
(* Claims *)

ResolvesInResults(place) ==
    \E i \in 1..Len(searchResults) : searchResults[i].place_id = place.place_id

\* C1: in every reachable state SelectedPlace is none or resolves, by id, to a
\* member of the current ResultSet.  (The search callback replaces or clears
\* searchResults without touching selectedPlace, so this fails.)
C1_SelectedResolves == selectedPlace # Null => ResolvesInResults(selectedPlace)

IsOkResponse(e) == e.op = "searchResponse" /\ e.status = "OK" /\ e.results.some

\* C2: a step that delivers status OK with a result list sets ResultSet to exactly
\* that list, in response order; with N >= 1 the map center becomes entry 0's
\* coordinate (it stays where it was when entry 0 carries none), with N = 0 the
\* ResultSet is empty and the center does not move.
C2_SuccessfulSearch ==
    [][IsOkResponse(lastEvent') =>
         LET r == lastEvent'.results.v
         IN  /\ searchResults' = r
             /\ Len(r) >= 1 /\ HasGeometry(r[1]) => center' = r[1].location
             /\ Len(r) >= 1 /\ ~HasGeometry(r[1]) => center' = center
             /\ Len(r) = 0 => searchResults' = <<>> /\ center' = center]_vars

C2_Witness ==
    /\ IsOkResponse(lastEvent)
    /\ Len(lastEvent.results.v) = 2
    /\ searchResults = lastEvent.results.v
    /\ center = searchResults[1].location
    /\ currentPosition # center

IsFailedResponse(e) == e.op = "searchResponse" /\ e.status # "OK"

NumPending(reqs) == Cardinality({i \in 1..Len(reqs) : reqs[i].pending})

\* C3: a step that delivers a non-OK status empties ResultSet whatever it held,
\* raises one alert naming that status, and issues no provider call: the list of
\* requests grows by none and one fewer is pending.
C3_FailedSearch ==
    [][IsFailedResponse(lastEvent') =>
         /\ searchResults' = <<>>
         /\ alerts' = Append(alerts, lastEvent'.status)
         /\ Len(requests') = Len(requests)
         /\ NumPending(requests') = NumPending(requests) - 1]_vars

C3_Witness ==
    /\ IsFailedResponse(lastEvent)
    /\ selectedPlace # Null
    /\ searchResults = <<>>
    /\ alerts = <<lastEvent.status>>

\* C4: a keyword search started with an empty query, or no Coordinate, or no
\* MapHandle, or the SDK not loaded, issues no provider call and changes nothing
\* of the session state and writes nothing, however often it is repeated.
C4_GuardedSearchIsNoOp ==
    [][/\ lastEvent'.op = "handleSearch"
       /\ \/ searchQuery = ""
          \/ currentPosition = Null
          \/ map = Null
          \/ sdk # "loaded"
       => UNCHANGED session /\ console' = {}]_vars

C4_Witness ==
    /\ lastEvent.op = "handleSearch"
    /\ ~lastEvent.issued
    /\ searchQuery = ""
    /\ map # Null
    /\ searchResults # <<>>
    /\ requests = <<>>

PickHasGeometry(e) ==
    /\ e.op = "placesChanged"
    /\ e.places.some
    /\ e.places.v # <<>>
    /\ HasGeometry(e.places.v[1])

\* C5: a pick whose first candidate has geometry sets Coordinate to its
\* coordinate, ResultSet to the one-element list holding it and SelectedPlace to
\* it; a pick without candidates, or whose first candidate lacks geometry, changes
\* none of Coordinate, ResultSet, SelectedPlace and the map center.
C5_AutocompletePick ==
    [][lastEvent'.op = "placesChanged" =>
         IF PickHasGeometry(lastEvent')
         THEN LET first == lastEvent'.places.v[1]
              IN  /\ currentPosition' = first.location
                  /\ searchResults' = <<first>>
                  /\ selectedPlace' = first
         ELSE UNCHANGED <<currentPosition, searchResults, selectedPlace, center>>]_vars

C5_Witness ==
    /\ PickHasGeometry(lastEvent)
    /\ geo = "pending"
    /\ currentPosition = LocA
    /\ searchResults = <<Place("p1", LocA)>>
    /\ selectedPlace = Place("p1", LocA)

\* C6: clicking the marker of a place P leaves the state a click on P's list row
\* leaves: SelectedPlace = P and the map center at P's coordinate.  (The marker's
\* handler only selects, so this fails.)
C6_MarkerClickPans ==
    lastEvent.op = "markerClick" =>
        /\ selectedPlace # Null
        /\ center = selectedPlace.location

\* C7: the first keyword search issued after an autocomplete pick with geometry
\* is centered on the picked coordinate.  (A geolocation callback that arrives
\* after the pick overwrites currentPosition, so this fails.)
C7_NextSearchCentersOnPick ==
    [][/\ lastEvent'.op = "handleSearch"
       /\ lastEvent'.issued
       /\ pickedCoord # Null
       => requests'[Len(requests')].location = pickedCoord]_vars

\* C8: whichever way the geolocation step ends, Coordinate is then the reported
\* value (success) or the fixed fallback (failure callback, unsupported API), and
\* once the step has ended Coordinate is set in every later state.
C8_CoordinateSetAfterAcquisition ==
    /\ geo = "done" => currentPosition # Null
    /\ lastEvent.op = "geoSuccess" => currentPosition \in GeoCoords
    /\ lastEvent.op \in {"geoFailure", "geoUnsupported"} => currentPosition = Fallback

C8_Witness ==
    /\ lastEvent.op = "geoFailure"
    /\ currentPosition = Fallback
    /\ pickedCoord # Null

\* C9: typing text into the text entry updates SearchQuery to that text.  (The
\* <input> has no change handler and nothing calls handleSearch, so this fails.)
C9_TypingUpdatesQuery == lastEvent.op = "typeText" => searchQuery = inputText

\* C10: closing the overlay sets SelectedPlace to none and leaves ResultSet,
\* Coordinate and MapHandle as they were.
C10_CloseOverlay ==
    [][lastEvent'.op = "closeClick" =>
         /\ selectedPlace' = Null
         /\ UNCHANGED <<searchResults, currentPosition, map>>]_vars

C10_Witness ==
    /\ lastEvent.op = "closeClick"
    /\ selectedPlace = Null
    /\ searchResults # <<>>
    /\ map # Null

\* C11: once the response of a keyword search has been processed, SelectedPlace
\* is none.  (Neither handleSearch nor its callback calls setSelectedPlace, so
\* this fails.)
C11_SearchClearsSelection == lastEvent.op = "searchResponse" => selectedPlace = Null

\* C12: with the API key absent only the fixed error view exists: in every state
\* no geolocation request has been made, the SDK loader was never called, no map
\* is mounting or mounted, no provider request was issued and no handler has run.
C12_NoKeyNoInitialization ==
    apiKey = "" =>
        /\ geo = "idle"
        /\ geoRequests = 0
        /\ sdk = "idle"
        /\ mapState = "unmounted"
        /\ map = Null
        /\ requests = <<>>
        /\ lastEvent.op = "init"

C12_Witness == apiKey = "" /\ ~MapSearchRendered /\ lastEvent.op = "init"

AllAnswered == \A i \in 1..Len(requests) : ~requests[i].pending

\* C13: once every one of two or more keyword searches has been answered,
\* ResultSet is the outcome of the response that arrived last (its list on OK,
\* empty otherwise), whichever request it answers.
C13_LastArrivalWins ==
    lastEvent.op = "searchResponse" /\ Len(requests) >= 2 /\ AllAnswered =>
        searchResults = IF IsOkResponse(lastEvent) THEN lastEvent.results.v ELSE <<>>

\* The older request is answered last, after the newer one: ResultSet shows the
\* older request's results.
C13_Witness ==
    /\ Len(requests) = 2
    /\ AllAnswered
    /\ lastEvent.op = "searchResponse"
    /\ lastEvent.req = 1
    /\ IsOkResponse(lastEvent)
    /\ searchResults = lastEvent.results.v
    /\ searchResults # <<>>

GeoOutcomeOps == {"geoSuccess", "geoFailure", "geoUnsupported"}

\* C14: the geolocation capability is requested at most once, and the
\* acquisition ends at most once: a step that ends it (success callback, failure
\* callback or unsupported branch) starts where it had not ended, and once ended
\* it stays ended with no further request.
C14_GeolocationOnce ==
    /\ [](geoRequests <= 1)
    /\ [][lastEvent'.op \in GeoOutcomeOps => geo # "done" /\ geo' = "done"]_vars
    /\ [][geo = "done" => geo' = "done" /\ geoRequests' = geoRequests]_vars

C14_Witness ==
    /\ geo = "done"
    /\ geoRequests = 1
    /\ lastEvent.op = "searchResponse"
    /\ Len(requests) = MaxSearches

\* Handlers that can run while only a placeholder is rendered.
OpsBeforeLoad ==
    {"init", "geoRequest", "geoUnsupported", "geoSuccess", "geoFailure",
     "sdkLoadError", "handleSearch", "setSearchQuery"}

\* C15: until the SDK has loaded no map is mounting or mounted, no pan or
\* set-center has moved a map, no nearby-search request has been issued and no
\* autocomplete pick has been handled; a load failure is final, so after it none
\* of those ever happens.
C15_SdkGatesInteraction ==
    /\ [](sdk # "loaded" =>
            /\ mapState = "unmounted"
            /\ map = Null
            /\ center = Null
            /\ requests = <<>>
            /\ searchBoxRef = Null
            /\ searchResults = <<>>
            /\ selectedPlace = Null
            /\ pickedCoord = Null
            /\ lastEvent.op \in OpsBeforeLoad)
    /\ [][sdk = "error" => sdk' = "error"]_vars

C15_Witness ==
    /\ sdk = "error"
    /\ geo = "done"
    /\ searchQuery # ""
    /\ lastEvent.op = "handleSearch"

\* C16 (state part): MapHandle is non-null exactly while the map is mounted, a map
\* is mounting or mounted only with the SDK loaded and Coordinate known, and no
\* map operation has gone through a handle whose map was unmounted.  (The search
\* callback pans through the handle its closure captured, also after unmount, so
\* this fails.)
C16_MapLifecycle ==
    /\ map # Null <=> mapState = "mounted"
    /\ mapState # "unmounted" => sdk = "loaded" /\ currentPosition # Null
    /\ ~staleOps

\* C16 (order part): the mount lifecycle steps only unmounted -> mounting ->
\* mounted -> unmounted; the handle is set on entering mounted and cleared on
\* leaving it.
C16_LifecycleOrder ==
    [][/\ mapState' # mapState =>
            <<mapState, mapState'>> \in {<<"unmounted", "mounting">>,
                                        <<"mounting", "mounted">>,
                                        <<"mounted", "unmounted">>}
       /\ mapState # "mounted" /\ mapState' = "mounted" => map' # Null
       /\ mapState = "mounted" /\ mapState' # "mounted" => map' = Null]_vars

\* C17 (as claimed): with the map mounted, whenever SelectedPlace is set the
\* overlay, and with it the close action, is there.  (A list-row click selects a
\* result without geometry, for which no overlay is rendered, so this fails.)
C17_OverlayWheneverSelected ==
    mapState = "mounted" /\ selectedPlace # Null => InfoWindowRendered

\* C17 (amended): with the map mounted, a SelectedPlace that has geometry has its
\* overlay, anchored at its coordinate, and the close action; a SelectedPlace
\* without geometry has neither.
C17_OverlayForGeometry ==
    mapState = "mounted" /\ selectedPlace # Null =>
        IF HasGeometry(selectedPlace)
        THEN /\ InfoWindowRendered
             /\ InfoWindowPosition = selectedPlace.location
             /\ ENABLED onCloseClick
        ELSE /\ ~InfoWindowRendered
             /\ ~ENABLED onCloseClick

C17_Witness ==
    /\ lastEvent.op = "rowClick"
    /\ mapState = "mounted"
    /\ selectedPlace # Null
    /\ ~HasGeometry(selectedPlace)
    /\ ~InfoWindowRendered

\* C18: each geolocation failure kind (failure callback, API unsupported) sets
\* Coordinate to the fixed fallback and logs a warning.  (The unsupported branch
\* sets the fallback without logging, so this fails.)
C18_FailureWarns ==
    lastEvent.op \in {"geoFailure", "geoUnsupported"} =>
        /\ currentPosition = Fallback
        /\ "warn:geolocation" \in console

\* C19: the search callback raises no error, whatever the provider answers.
\* (Status OK with an empty list makes it read results[0].geometry of undefined,
\* so this fails.)
C19_CallbackNeverThrows == ~uncaught

\* C20: Coordinate changes only in a step that ends the geolocation acquisition
\* or handles a pick with geometry; a search response, a marker click, a row
\* click and an overlay close leave it as it was, and every keyword search
\* issued is centered on the Coordinate of that moment.
C20_CoordinateFrame ==
    [][/\ currentPosition' # currentPosition =>
            lastEvent'.op \in GeoOutcomeOps \/ PickHasGeometry(lastEvent')
       /\ lastEvent'.op \in {"searchResponse", "markerClick", "rowClick", "closeClick"} =>
            currentPosition' = currentPosition
       /\ lastEvent'.op = "handleSearch" /\ lastEvent'.issued =>
            requests'[Len(requests')].location = currentPosition]_vars

\* A response has panned the map away from Coordinate, and the search issued
\* afterwards is centered where the first one was.
C20_Witness ==
    /\ lastEvent.op = "handleSearch"
    /\ lastEvent.issued
    /\ Len(requests) = 2
    /\ ~requests[1].pending
    /\ center # currentPosition
    /\ requests[1].location = currentPosition
    /\ requests[2].location = currentPosition

====
